---- MODULE Spec2Model ----
(***************************************************************************)
(* A model of game-of-life-cli (src/src/main.rs): the Universe engine,     *)
(* with the clipped B3/S23 grid, the wrapping cursor, the bounded undo     *)
(* history and the renderer, one action per Universe operation; and the    *)
(* loop of main, one action per arm of its match on the key read.          *)
(***************************************************************************)
EXTENDS Integers, Sequences, FiniteSets, TLC

VARIABLES
    width,          \* Universe.width
    height,         \* Universe.height
    cells,          \* Universe.cells: a flat vector indexed 0 .. width*height-1
    selected_cell,  \* Universe.selected_cell: <<row, col>>
    show_cursor,    \* Universe.show_cursor
    is_running,     \* Universe.is_running
    history,        \* Universe.history: VecDeque, front first
    panicked,       \* TRUE once an index past the end of cells has aborted the process
    op,             \* name of the operation that produced this state
    ret,            \* what tick_back returned: "Ok", "Err", or "none" for other operations
    log,            \* the pre-tick grids of the ticks not undone so far, oldest first
    nback,          \* successful tick_back calls in the current unbroken run of tick_back calls
    arg,            \* SpecCursor: the deltas <<r, c>> of the last move_cursor;
                    \* SpecCells: <<list>>, the list of the last set_cells
    prev_cursor,    \* SpecCursor: selected_cell before the last move_cursor
    frame,          \* what the last step wrote to stdout, one element per write
    pc,             \* main: "main" before the loop, "poll" at the top of the loop,
                    \* "auto" at `if game.is_running`, "done" after the break,
                    \* "aborted" after the panic of x.unwrap()
    key,            \* main: the event the current iteration read from stdin
    tick_millis,    \* main: the local tick_millis
    iter,           \* main: cells, history and tick_millis when the current iteration began
    niter           \* main: iterations begun so far

driver == <<pc, key, tick_millis, iter, niter>>

vars == <<width, height, cells, selected_cell, show_cursor, is_running, history,
          panicked, op, ret, log, nback, arg, prev_cursor, frame, pc, key,
          tick_millis, iter, niter>>

----------------------------------------------------------------------------
(* Program constants and bounds of the model *)

DEAD == "  "
ALIVE == "##"                            \* two full blocks
CORNERS == <<"/-", "-\\", "-/", "\\-">>      \* the four box corners, CORNERS[k] at k + 1
BORDER_H == "=="                         \* two double horizontal bars
BORDER_V == "|"                          \* a double vertical bar
SELECTED_DEAD == "::"                    \* two light shades
SELECTED_ALIVE == "%%"                   \* two medium shades
HISTORY_LEN == 20
EOL == "<LF><CR>"                        \* the "\n\r" that ends a line

MaxW == 2          \* widths of the grids of Spec, SpecCursor and SpecHistory
MaxH == 2          \* heights of the grids of Spec, SpecCursor and SpecHistory
MaxDelta == 2      \* move_cursor deltas range over -MaxDelta .. MaxDelta
MaxList == 2       \* length of the coordinate lists passed to set_cells
MaxDepth == 1      \* ticks not undone in Spec
MaxSide == 3       \* widths and heights of the grids of SpecTick
MaxTicks == 2      \* ticks in SpecTick
MaxExtra == 2      \* ticks beyond HISTORY_LEN in SpecHistory
MaxFixW == 7       \* widths of the grids of SpecFixture
MaxFixH == 6       \* heights of the grids of SpecFixture
MaxIters == 4      \* iterations of the loop of main in SpecDriver

DRIVER_WIDTH == 6            \* Universe::new(6, 6)
DRIVER_HEIGHT == 6
INITIAL_TICK_MILLIS == 200   \* let mut tick_millis: u64 = 200
TICK_MILLIS_STEP == 50       \* tick_millis += 50, tick_millis - 50
MIN_TICK_MILLIS == 50        \* max(..., 50)

----------------------------------------------------------------------------
(* Helpers of Universe *)

get_index(row, column) == row * width + column

is_in_bounds(row, col) ==
    (row >= 0) /\ (row < height) /\ (col >= 0) /\ (col < width)

get_cell(row, col) == cells[get_index(row, col)]

\* vec![false; width * height]
dead_cells(w, h) == [i \in 0 .. (w * h - 1) |-> FALSE]

\* the body of the double loop of live_neighbour_count, r and c running
\* over (row-1)..=(row+1) and (col-1)..=(col+1), r outermost
RECURSIVE neighbour_loop(_, _, _, _, _)
neighbour_loop(row, col, r, c, ans) ==
    IF r > row + 1 THEN ans
    ELSE IF c > col + 1 THEN neighbour_loop(row, col, r + 1, col - 1, ans)
    ELSE IF is_in_bounds(r, c) /\ ~(<<r, c>> = <<row, col>>)
         THEN neighbour_loop(row, col, r, c + 1,
                             ans + (IF get_cell(r, c) THEN 1 ELSE 0))
         ELSE neighbour_loop(row, col, r, c + 1, ans)

\* a neighbour count that forgets to leave out the cell itself
live_neighbour_count_with_self(row, col) ==
    neighbour_loop(row, col, row - 1, col - 1, 0) + (IF get_cell(row, col) THEN 1 ELSE 0)

\* a neighbour count that wraps around the edges, as the cursor does
live_neighbour_count_wrapping(row, col) ==
    LET around == {d \in (-1 .. 1) \X (-1 .. 1) : d # <<0, 0>>}
        alive(d) == get_cell((row + d[1]) % height, (col + d[2]) % width)
    IN  Cardinality({d \in around : alive(d)})

live_neighbour_count(row, col) == neighbour_loop(row, col, row - 1, col - 1, 0)

\* the match of tick, arm by arm
next_state(cell, live_neighbours) ==
    IF cell /\ live_neighbours < 2 THEN FALSE
    ELSE IF cell /\ (live_neighbours = 2 \/ live_neighbours = 3) THEN TRUE
    ELSE IF cell /\ live_neighbours > 3 THEN FALSE
    ELSE IF ~cell /\ live_neighbours = 3 THEN TRUE
    ELSE cell

\* a row loop that updates the grid in place: the neighbours already swept
\* are read at their new value
RECURSIVE tick_row_in_place(_, _, _)
tick_row_in_place(next, row, col) ==
    IF col >= width THEN next
    ELSE LET idx == get_index(row, col)
             now(i) == IF i < idx THEN next[i] ELSE cells[i]
             around == {q \in (row - 1 .. row + 1) \X (col - 1 .. col + 1) :
                           is_in_bounds(q[1], q[2]) /\ q # <<row, col>>}
             live_neighbours ==
                 Cardinality({q \in around : now(get_index(q[1], q[2]))})
         IN  tick_row_in_place(
                 [next EXCEPT ![idx] = next_state(cells[idx], live_neighbours)],
                 row, col + 1)

\* for col in 0..self.width: next is written cell by cell, self.cells is
\* only read. The write next[idx] = .. checks idx against the length of
\* next; idx < width * height, so the check never fails
RECURSIVE tick_row(_, _, _)
tick_row(next, row, col) ==
    IF col >= width THEN next
    ELSE LET idx == get_index(row, col)
             cell == cells[idx]
             live_neighbours == live_neighbour_count(row, col)
         IN  IF idx \in DOMAIN next
             THEN tick_row([next EXCEPT ![idx] = next_state(cell, live_neighbours)],
                           row, col + 1)
             ELSE next

\* for row in 0..self.height
RECURSIVE tick_sweep(_, _)
tick_sweep(next, row) ==
    IF row >= height THEN next ELSE tick_sweep(tick_row(next, row, 0), row + 1)

\* a capacity test that is off by one: > in place of >=
history_push_off_by_one(h, snapshot) ==
    Append(IF Len(h) > HISTORY_LEN THEN Tail(h) ELSE h, snapshot)

\* an eviction from the wrong end: pop_back in place of pop_front
history_push_evict_newest(h, snapshot) ==
    Append(IF Len(h) >= HISTORY_LEN THEN SubSeq(h, 1, Len(h) - 1) ELSE h, snapshot)

\* history after the pop_front (at capacity) and the push_back of tick
history_push(h, snapshot) ==
    Append(IF Len(h) >= HISTORY_LEN THEN Tail(h) ELSE h, snapshot)

\* an undo that takes the oldest snapshot: pop_front in place of pop_back
pop_back_takes_front(h) ==
    IF h = <<>>
    THEN [some |-> FALSE, x |-> <<>>, rest |-> h]
    ELSE [some |-> TRUE, x |-> h[1], rest |-> Tail(h)]

\* an undo that falls back to an all-dead grid when there is no snapshot
pop_back_or_default(h) ==
    IF h = <<>>
    THEN [some |-> TRUE, x |-> dead_cells(width, height), rest |-> h]
    ELSE [some |-> TRUE, x |-> h[Len(h)], rest |-> SubSeq(h, 1, Len(h) - 1)]

\* history.pop_back(): None on an empty deque, else Some(x) of the back element
pop_back(h) ==
    IF h = <<>>
    THEN [some |-> FALSE, x |-> <<>>, rest |-> h]
    ELSE [some |-> TRUE, x |-> h[Len(h)], rest |-> SubSeq(h, 1, Len(h) - 1)]

\* a row axis that does not wrap
move_row_unwrapped(row, r) == row + r

\* the row axis of move_cursor
move_row(row, r) ==
    IF r < 0
    THEN IF -r > row
         THEN height - ((-r - row) % height)
         ELSE row - (-r)
    ELSE (row + r) % height

\* the column axis of move_cursor
move_col(col, c) ==
    IF c < 0
    THEN IF -c > col
         THEN width - ((-c - col) % width)
         ELSE col - (-c)
    ELSE (col + c) % width

\* write_title: one element per write!
write_title(write_help) ==
    <<"<CR>Game Of Life", EOL, "------------", EOL>>
    \o (IF write_help
        THEN <<"Controls:", EOL,
               "* Arrow keys - move cursor", EOL,
               "* Space - toggle cell", EOL,
               "* R/S - [R]un / [S]top", EOL,
               "* P/N - [P]rev/[N]ext", EOL,
               "        (Single Step)", EOL,
               "* C - [C]lear", EOL,
               "* T - [T]oggle cursor", EOL,
               "* E - [E]dit settings", EOL,
               "------------", EOL>>
        ELSE <<>>)

\* Universe.should_write_help: set by new, never written again
should_write_help == TRUE

\* for i in 0..self.width {write BORDER_H}
RECURSIVE border_loop(_, _, _)
border_loop(out, i, w) ==
    IF i >= w THEN out ELSE border_loop(Append(out, BORDER_H), i + 1, w)

\* a column loop that compares the cursor with (j, i)
RECURSIVE render_row_transposed(_, _, _, _, _, _, _)
render_row_transposed(line, i, j, w, cs, sel, show) ==
    IF j >= w THEN line
    ELSE LET ind == i * w + j
             glyph == IF cs[ind]
                      THEN (IF <<j, i>> = sel /\ show THEN SELECTED_ALIVE ELSE ALIVE)
                      ELSE (IF <<j, i>> = sel /\ show THEN SELECTED_DEAD ELSE DEAD)
         IN  render_row_transposed(Append(line, glyph), i, j + 1, w, cs, sel, show)

\* for j in 0..self.width: the glyph of cell (i, j) of the universe
\* (w, cs, sel, show), written after line
RECURSIVE render_row(_, _, _, _, _, _, _)
render_row(line, i, j, w, cs, sel, show) ==
    IF j >= w THEN line
    ELSE LET ind == i * w + j
             glyph == IF cs[ind]
                      THEN (IF <<i, j>> = sel /\ show THEN SELECTED_ALIVE ELSE ALIVE)
                      ELSE (IF <<i, j>> = sel /\ show THEN SELECTED_DEAD ELSE DEAD)
         IN  render_row(Append(line, glyph), i, j + 1, w, cs, sel, show)

\* for i in 0..self.height: BORDER_V, the glyphs of row i, BORDER_V and the
\* end of the line
RECURSIVE render_rows(_, _, _, _, _, _, _)
render_rows(out, i, w, h, cs, sel, show) ==
    IF i >= h THEN out
    ELSE render_rows(out \o render_row(<<BORDER_V>>, i, 0, w, cs, sel, show)
                         \o <<BORDER_V, EOL>>,
                     i + 1, w, h, cs, sel, show)

\* what render writes for the universe (w, h, cs, sel, show)
render_frame(w, h, cs, sel, show) ==
    LET head == <<"Goto(1,1)", "clear::All", "cursor::Hide">>
                \o write_title(should_write_help)
        top == border_loop(Append(head, CORNERS[1]), 0, w) \o <<CORNERS[2], EOL>>
        rows == render_rows(top, 0, w, h, cs, sel, show)
    IN  border_loop(Append(rows, CORNERS[4]), 0, w) \o <<CORNERS[3], EOL>>

\* a set_cells that starts from an all-dead grid
set_cells_loop_clearing(cs, list) ==
    [i \in DOMAIN cs |->
        \E k \in 1 .. Len(list) : get_index(list[k][1], list[k][2]) = i]

\* the loop of set_cells
RECURSIVE set_cells_loop(_, _)
set_cells_loop(cs, list) ==
    IF list = <<>> THEN cs
    ELSE LET idx == get_index(Head(list)[1], Head(list)[2])
         IN  set_cells_loop([cs EXCEPT ![idx] = TRUE], Tail(list))

----------------------------------------------------------------------------
(* Inputs *)

Coords == (0 .. height - 1) \X (0 .. width - 1)

Deltas == (0 - MaxDelta) .. MaxDelta

RECURSIVE SeqsUpTo(_, _)
SeqsUpTo(S, n) ==
    IF n = 0 THEN {<<>>}
    ELSE LET shorter == SeqsUpTo(S, n - 1)
         IN  shorter \cup {Append(s, x) : s \in shorter, x \in S}

\* the coordinates of S in row-major order
RowMajor(S) ==
    LET all == [k \in 1 .. width * height |-> <<(k - 1) \div width, (k - 1) % width>>]
    IN  SelectSeq(all, LAMBDA p : p \in S)

----------------------------------------------------------------------------
(* Universe operations *)

\* what every operation records about itself
Did(name, r) ==
    /\ op' = name
    /\ ret' = r
    /\ nback' = IF name = "tick_back" THEN (IF r = "Ok" THEN nback + 1 ELSE nback) ELSE 0

\* Universe::new(w, h)
new(w, h) ==
    /\ width = w
    /\ height = h
    /\ cells = dead_cells(w, h)
    /\ selected_cell = <<0, 0>>
    /\ show_cursor = FALSE
    /\ is_running = FALSE
    /\ history = <<>>
    /\ panicked = FALSE
    /\ op = "new"
    /\ ret = "none"
    /\ log = <<>>
    /\ nback = 0
    /\ arg = <<>>
    /\ prev_cursor = <<0, 0>>

\* Universe::render into stdout
render ==
    /\ ~panicked
    /\ frame' = render_frame(width, height, cells, selected_cell, show_cursor)
    /\ Did("render", "none")
    /\ UNCHANGED <<width, height, cells, selected_cell, show_cursor, is_running,
                   history, panicked, log>>

set_cell(row, col, val) ==
    /\ ~panicked
    /\ cells' = [cells EXCEPT ![get_index(row, col)] = val]
    /\ Did("set_cell", "none")
    /\ UNCHANGED <<width, height, selected_cell, show_cursor, is_running, history,
                   panicked, log>>

set_cells(list) ==
    /\ ~panicked
    /\ cells' = set_cells_loop(cells, list)
    /\ Did("set_cells", "none")
    /\ UNCHANGED <<width, height, selected_cell, show_cursor, is_running, history,
                   panicked, log>>

move_cursor(r, c) ==
    /\ ~panicked
    /\ selected_cell' = <<move_row(selected_cell[1], r), move_col(selected_cell[2], c)>>
    /\ Did("move_cursor", "none")
    /\ UNCHANGED <<width, height, cells, show_cursor, is_running, history, panicked, log>>

tick ==
    /\ ~panicked
    /\ history' = history_push(history, cells)
    /\ cells' = tick_sweep(dead_cells(width, height), 0)
    /\ log' = Append(log, cells)
    /\ Did("tick", "none")
    /\ UNCHANGED <<width, height, selected_cell, show_cursor, is_running, panicked>>

\* an undo that keeps the undone grid at the front of the history
tick_back_keeping_redo ==
    /\ ~panicked
    /\ LET popped == pop_back(history)
       IN  IF popped.some
           THEN /\ cells' = popped.x
                /\ history' = <<cells>> \o popped.rest
                /\ log' = SubSeq(log, 1, Len(log) - 1)
                /\ Did("tick_back", "Ok")
           ELSE /\ UNCHANGED <<cells, log>>
                /\ history' = popped.rest
                /\ Did("tick_back", "Err")
    /\ UNCHANGED <<width, height, selected_cell, show_cursor, is_running, panicked>>

\* the match on history.pop_back(): Some(x) sets cells and returns Ok, None
\* returns Err
tick_back ==
    /\ ~panicked
    /\ LET popped == pop_back(history)
       IN  IF popped.some
           THEN /\ cells' = popped.x
                /\ history' = popped.rest
                /\ log' = SubSeq(log, 1, Len(log) - 1)
                /\ Did("tick_back", "Ok")
           ELSE /\ UNCHANGED <<cells, log>>
                /\ history' = popped.rest
                /\ Did("tick_back", "Err")
    /\ UNCHANGED <<width, height, selected_cell, show_cursor, is_running, panicked>>

\* a toggle that records the grid in the undo history, as tick does
toggle_selected_cell_with_undo ==
    /\ ~panicked
    /\ LET idx == get_index(selected_cell[1], selected_cell[2])
       IN  IF idx < width * height
           THEN /\ cells' = [cells EXCEPT ![idx] = ~cells[idx]]
                /\ history' = history_push(history, cells)
                /\ UNCHANGED panicked
           ELSE /\ panicked' = TRUE
                /\ UNCHANGED <<cells, history>>
    /\ Did("toggle_selected_cell", "none")
    /\ UNCHANGED <<width, height, selected_cell, show_cursor, is_running, log>>

\* get_cell and set_cell index cells with get_index(selected_cell): an index
\* past the end of the vector panics
toggle_selected_cell ==
    /\ ~panicked
    /\ LET idx == get_index(selected_cell[1], selected_cell[2])
       IN  IF idx < width * height
           THEN /\ cells' = [cells EXCEPT ![idx] = ~cells[idx]]
                /\ UNCHANGED panicked
           ELSE /\ panicked' = TRUE
                /\ UNCHANGED cells
    /\ Did("toggle_selected_cell", "none")
    /\ UNCHANGED <<width, height, selected_cell, show_cursor, is_running, history, log>>

\* a clear that also forgets the undo history
clear_drops_history ==
    /\ ~panicked
    /\ cells' = dead_cells(width, height)
    /\ history' = <<>>
    /\ Did("clear", "none")
    /\ UNCHANGED <<width, height, selected_cell, show_cursor, is_running, panicked, log>>

clear ==
    /\ ~panicked
    /\ cells' = dead_cells(width, height)
    /\ Did("clear", "none")
    /\ UNCHANGED <<width, height, selected_cell, show_cursor, is_running, history,
                   panicked, log>>

\* game.is_running = true / false
set_is_running(b) ==
    /\ ~panicked
    /\ is_running' = b
    /\ Did("set_is_running", "none")
    /\ UNCHANGED <<width, height, cells, selected_cell, show_cursor, history, panicked, log>>

\* game.show_cursor = true / game.show_cursor = !game.show_cursor
set_show_cursor(b) ==
    /\ ~panicked
    /\ show_cursor' = b
    /\ Did("set_show_cursor", "none")
    /\ UNCHANGED <<width, height, cells, selected_cell, is_running, history, panicked, log>>

\* a Universe used without the driver
Standalone ==
    /\ frame = <<>>
    /\ pc = "none"
    /\ key = "none"
    /\ tick_millis = 0
    /\ iter = <<>>
    /\ niter = 0

\* a step outside main that writes nothing to stdout
Quiet == frame' = <<>> /\ UNCHANGED driver

Untracked == UNCHANGED <<arg, prev_cursor>> /\ Quiet

----------------------------------------------------------------------------
(* Spec: every Universe operation, in any order, on the grids up to        *)
(* MaxW x MaxH, with at most MaxDepth ticks not undone                     *)

Init == Standalone /\ \E w \in 1 .. MaxW, h \in 1 .. MaxH : new(w, h)

SetCell == \E p \in Coords, val \in BOOLEAN : set_cell(p[1], p[2], val) /\ Untracked

SetCells == \E list \in SeqsUpTo(Coords, MaxList) : set_cells(list) /\ Untracked

MoveCursor == \E r \in Deltas, c \in Deltas : move_cursor(r, c) /\ Untracked

Tick == Len(log) < MaxDepth /\ tick /\ Untracked

TickBack == tick_back /\ Untracked

ToggleSelectedCell == toggle_selected_cell /\ Untracked

Clear == clear /\ Untracked

SetIsRunning == \E b \in BOOLEAN : set_is_running(b) /\ Untracked

SetShowCursor == \E b \in BOOLEAN : set_show_cursor(b) /\ Untracked

Render == render /\ UNCHANGED <<arg, prev_cursor>> /\ UNCHANGED driver

Next ==
    \/ SetCell
    \/ SetCells
    \/ MoveCursor
    \/ Tick
    \/ TickBack
    \/ ToggleSelectedCell
    \/ Clear
    \/ SetIsRunning
    \/ SetShowCursor
    \/ Render

Spec == Init /\ [][Next]_vars

----------------------------------------------------------------------------
(* SpecTick: new, one set_cells seeding any grid up to MaxSide x MaxSide,  *)
(* then up to MaxTicks ticks                                               *)

InitTick == Standalone /\ \E w \in 1 .. MaxSide, h \in 1 .. MaxSide : new(w, h)

SeedCells == op = "new" /\ \E S \in SUBSET Coords : set_cells(RowMajor(S)) /\ Untracked

ShortTick == Len(log) < MaxTicks /\ tick /\ Untracked

NextTick ==
    \/ SeedCells
    \/ ShortTick

SpecTick == InitTick /\ [][NextTick]_vars

----------------------------------------------------------------------------
(* SpecHistory: a seeded grid up to MaxW x MaxH, then tick_back and up to  *)
(* HISTORY_LEN + MaxExtra ticks not undone                                 *)

DeepTick == Len(log) < HISTORY_LEN + MaxExtra /\ tick /\ Untracked

NextHistory ==
    \/ SeedCells
    \/ DeepTick
    \/ TickBack

SpecHistory == Init /\ [][NextHistory]_vars

----------------------------------------------------------------------------
(* SpecCursor: move_cursor alone, recording the start and the deltas       *)

TrackedMove ==
    \E r \in Deltas, c \in Deltas :
        /\ move_cursor(r, c)
        /\ arg' = <<r, c>>
        /\ prev_cursor' = selected_cell
        /\ Quiet

NextCursor == TrackedMove

SpecCursor == Init /\ [][NextCursor]_vars

----------------------------------------------------------------------------
(* SpecCells: a seeded grid up to MaxW x MaxH, then one set_cells of a     *)
(* list of up to MaxList coordinates, the list recorded                    *)

TrackedSetCells ==
    /\ op = "set_cells"
    /\ arg = <<>>
    /\ \E list \in SeqsUpTo(Coords, MaxList) :
          /\ set_cells(list)
          /\ arg' = <<list>>
    /\ UNCHANGED prev_cursor
    /\ Quiet

NextCells ==
    \/ SeedCells
    \/ TrackedSetCells

SpecCells == Init /\ [][NextCells]_vars

----------------------------------------------------------------------------
(* SpecFixture: a grid up to MaxFixW x MaxFixH seeded with a horizontal    *)
(* line of three or a 2 x 2 block that touches no edge, then up to         *)
(* MaxTicks ticks                                                          *)

\* the horizontal line of three cells centred on p
HLine(p) == <<<<p[1], p[2] - 1>>, p, <<p[1], p[2] + 1>>>>

\* the vertical line of three cells centred on p
VLine(p) == <<<<p[1] - 1, p[2]>>, p, <<p[1] + 1, p[2]>>>>

\* the 2 x 2 block whose top left cell is p
Block(p) == <<p, <<p[1], p[2] + 1>>, <<p[1] + 1, p[2]>>, <<p[1] + 1, p[2] + 1>>>>

\* the centres of the horizontal lines with a dead row and column around them
LineCentres == (1 .. height - 2) \X (2 .. width - 3)

\* the top left cells of the blocks with a dead row and column around them
BlockCorners == (1 .. height - 3) \X (1 .. width - 3)

InitFixture == Standalone /\ \E w \in 1 .. MaxFixW, h \in 1 .. MaxFixH : new(w, h)

SeedLine == op = "new" /\ \E p \in LineCentres : set_cells(HLine(p)) /\ Untracked

SeedBlock == op = "new" /\ \E p \in BlockCorners : set_cells(Block(p)) /\ Untracked

NextFixture ==
    \/ SeedLine
    \/ SeedBlock
    \/ ShortTick

SpecFixture == InitFixture /\ [][NextFixture]_vars

----------------------------------------------------------------------------
(* SpecDriver: main. The Universe is 6 x 6; every iteration of the loop    *)
(* reads one key event or none, runs its handler, and then ticks if        *)
(* is_running; up to MaxIters iterations                                   *)

\* what it.next() can deliver: "other" is any key without an arm of its
\* own, "error" is Some(Err(..)), "none" is None
Keys == {"Up", "Down", "Right", "Left", "r", "s", "n", "p", "c", "t", " ",
         "-", "+", "q", "other", "error", "none"}

\* a u64 that has wrapped below zero, out of the reach of max(.., 50)
WRAPPED == 2147483647

\* tick_millis += 50
speed_down(t) == t + TICK_MILLIS_STEP

\* a speed-up without the floor
speed_up_unclamped(t) == t - TICK_MILLIS_STEP

\* max(tick_millis - 50, 50), the subtraction not underflowing
speed_up(t) ==
    IF t - TICK_MILLIS_STEP > MIN_TICK_MILLIS THEN t - TICK_MILLIS_STEP ELSE MIN_TICK_MILLIS

\* an automatic tick in every iteration
auto_tick_always == TRUE

\* no automatic tick at all
auto_tick_never == FALSE

\* if game.is_running
auto_tick_due == is_running

\* game.render(&mut stdout) on the Universe as the step leaves it
Rendered ==
    frame' = render_frame(width', height', cells', selected_cell', show_cursor')

\* a step of main that calls nothing on the Universe
no_call ==
    /\ ~panicked
    /\ op' = "none"
    /\ ret' = "none"
    /\ UNCHANGED <<width, height, cells, selected_cell, show_cursor, is_running,
                   history, panicked, log, nback>>

\* let b = it.next() delivering k, at the top of the loop
Polls(k) ==
    /\ pc = "poll"
    /\ niter < MaxIters
    /\ key' = k
    /\ niter' = niter + 1
    /\ iter' = [cells |-> cells, history |-> history, tick_millis |-> tick_millis]
    /\ UNCHANGED <<arg, prev_cursor>>

\* the end of a match arm that leaves tick_millis alone: on to
\* `if game.is_running`
Handled == pc' = "auto" /\ UNCHANGED tick_millis

InitDriver ==
    /\ new(DRIVER_WIDTH, DRIVER_HEIGHT)
    /\ frame = <<>>
    /\ pc = "main"
    /\ key = "none"
    /\ tick_millis = INITIAL_TICK_MILLIS
    /\ iter = <<>>
    /\ niter = 0

\* game.show_cursor = true; game.render(..): the statements before the loop
Setup ==
    /\ pc = "main"
    /\ set_show_cursor(TRUE)
    /\ Rendered
    /\ pc' = "poll"
    /\ UNCHANGED <<key, tick_millis, iter, niter, arg, prev_cursor>>

KeyUp == Polls("Up") /\ move_cursor(-1, 0) /\ Rendered /\ Handled

KeyDown == Polls("Down") /\ move_cursor(1, 0) /\ Rendered /\ Handled

KeyRight == Polls("Right") /\ move_cursor(0, 1) /\ Rendered /\ Handled

KeyLeft == Polls("Left") /\ move_cursor(0, -1) /\ Rendered /\ Handled

KeyR == Polls("r") /\ set_is_running(TRUE) /\ frame' = <<>> /\ Handled

KeyS == Polls("s") /\ set_is_running(FALSE) /\ frame' = <<>> /\ Handled

KeyN == Polls("n") /\ tick /\ Rendered /\ Handled

KeyP ==
    /\ Polls("p")
    /\ tick_back
    /\ IF ret' = "Ok" THEN Rendered ELSE frame' = <<"<CR>No more moves in history!">>
    /\ Handled

KeyC == Polls("c") /\ clear /\ Rendered /\ Handled

KeyT == Polls("t") /\ set_show_cursor(~show_cursor) /\ Rendered /\ Handled

KeySpace ==
    /\ Polls(" ")
    /\ toggle_selected_cell
    /\ IF panicked' THEN frame' = <<>> ELSE Rendered
    /\ Handled

KeyMinus ==
    /\ Polls("-")
    /\ no_call
    /\ tick_millis' = speed_down(tick_millis)
    /\ frame' = <<>>
    /\ pc' = "auto"

\* tick_millis - 50 below zero panics in a build with overflow checks and
\* wraps modulo 2^64 in one without
KeyPlus ==
    /\ Polls("+")
    /\ ~panicked
    /\ op' = "none"
    /\ ret' = "none"
    /\ IF tick_millis >= TICK_MILLIS_STEP
       THEN /\ tick_millis' = speed_up(tick_millis)
            /\ UNCHANGED panicked
       ELSE \/ panicked' = TRUE /\ UNCHANGED tick_millis
            \/ tick_millis' = WRAPPED /\ UNCHANGED panicked
    /\ UNCHANGED <<width, height, cells, selected_cell, show_cursor, is_running,
                   history, log, nback>>
    /\ frame' = <<>>
    /\ pc' = "auto"

\* break, then cursor::Show after the loop
KeyQ ==
    /\ Polls("q")
    /\ no_call
    /\ frame' = <<"cursor::Show">>
    /\ pc' = "done"
    /\ UNCHANGED tick_millis

KeyOther == Polls("other") /\ no_call /\ frame' = <<"Unexpected key">> /\ Handled

\* Some(x) with x an Err: x.unwrap() panics
ReadError ==
    /\ Polls("error")
    /\ no_call
    /\ frame' = <<>>
    /\ pc' = "aborted"
    /\ UNCHANGED tick_millis

NoKey == Polls("none") /\ no_call /\ frame' = <<>> /\ Handled

\* if game.is_running {tick; render; flush; sleep(tick_millis)}, and back to
\* the top of the loop
AutoTick ==
    /\ pc = "auto"
    /\ IF auto_tick_due THEN tick /\ Rendered ELSE no_call /\ frame' = <<>>
    /\ pc' = "poll"
    /\ UNCHANGED <<key, tick_millis, iter, niter, arg, prev_cursor>>

NextDriver ==
    \/ Setup
    \/ KeyUp
    \/ KeyDown
    \/ KeyRight
    \/ KeyLeft
    \/ KeyR
    \/ KeyS
    \/ KeyN
    \/ KeyP
    \/ KeyC
    \/ KeyT
    \/ KeySpace
    \/ KeyMinus
    \/ KeyPlus
    \/ KeyQ
    \/ KeyOther
    \/ ReadError
    \/ NoKey
    \/ AutoTick

SpecDriver == InitDriver /\ [][NextDriver]_vars

----------------------------------------------------------------------------
(* Vocabulary of the claims *)

Index(p) == p[1] * width + p[2]

Alive(grid) == {p \in Coords : grid[Index(p)]}

\* the live cells among the up to 8 positions around p that lie inside the grid
LiveAround(grid, p) ==
    {q \in Alive(grid) :
        /\ q # p
        /\ q[1] - p[1] \in -1 .. 1
        /\ q[2] - p[2] \in -1 .. 1}

\* the B3/S23 successor of grid
Successor(grid) ==
    [i \in 0 .. (width * height - 1) |->
        LET p == <<i \div width, i % width>>
            n == Cardinality(LiveAround(grid, p))
        IN  IF grid[i] THEN n \in {2, 3} ELSE n = 3]

CursorInBounds ==
    /\ selected_cell[1] \in 0 .. height - 1
    /\ selected_cell[2] \in 0 .. width - 1

\* the grid that was current before the latest tick not undone
PreTick == log[Len(log)]

\* the fields of Universe
Fields == <<width, height, cells, selected_cell, show_cursor, is_running, history>>

\* the two characters that show the cell at p
Glyph(p) ==
    IF cells[Index(p)]
    THEN (IF p = selected_cell /\ show_cursor THEN SELECTED_ALIVE ELSE ALIVE)
    ELSE (IF p = selected_cell /\ show_cursor THEN SELECTED_DEAD ELSE DEAD)

\* the frame of the current state: the screen reset, the title, the top
\* border, one bordered line of glyphs per row, the bottom border
FrameOf ==
    LET bar == [k \in 1 .. width |-> BORDER_H]
        per_row == width + 3
        rows == [k \in 1 .. height * per_row |->
                    LET i == (k - 1) \div per_row
                        t == (k - 1) % per_row
                    IN  IF t = 0 \/ t = width + 1 THEN BORDER_V
                        ELSE IF t = width + 2 THEN EOL
                        ELSE Glyph(<<i, t - 1>>)]
    IN  <<"Goto(1,1)", "clear::All", "cursor::Hide">>
        \o write_title(TRUE)
        \o <<CORNERS[1]>> \o bar \o <<CORNERS[2], EOL>>
        \o rows
        \o <<CORNERS[4]>> \o bar \o <<CORNERS[3], EOL>>

\* h after one more snapshot g: the oldest dropped first when h is full
Pushed(h, g) == (IF Len(h) >= HISTORY_LEN THEN Tail(h) ELSE h) \o <<g>>

\* h without its newest snapshot
Popped(h) == SubSeq(h, 1, Len(h) - 1)

\* the fields but cells and history
Rest == <<width, height, selected_cell, show_cursor, is_running>>

\* the step is one tick of the Universe
OneTick ==
    /\ cells' = Successor(cells)
    /\ history' = Pushed(history, cells)
    /\ UNCHANGED Rest

\* the step is one successful tick_back of the Universe
OneTickBack ==
    /\ history # <<>>
    /\ cells' = history[Len(history)]
    /\ history' = Popped(history)
    /\ UNCHANGED Rest

\* the step is one edit of the grid: one cell flipped, or the grid cleared
OneEdit ==
    /\ \/ \E p \in Coords : cells' = [cells EXCEPT ![Index(p)] = ~cells[Index(p)]]
       \/ cells' = [i \in DOMAIN cells |-> FALSE]
    /\ UNCHANGED history
    /\ UNCHANGED Rest

\* the step writes one field among selected_cell, show_cursor and is_running
OneFieldWrite ==
    /\ \/ UNCHANGED <<show_cursor, is_running>>
       \/ UNCHANGED <<selected_cell, is_running>>
       \/ UNCHANGED <<selected_cell, show_cursor>>
    /\ UNCHANGED <<width, height, cells, history>>

\* the step applies no more than one mutation to the Universe
AtMostOneMutation ==
    \/ UNCHANGED Fields
    \/ OneFieldWrite
    \/ OneEdit
    \/ OneTick
    \/ OneTickBack

\* the larger of a and b
Max(a, b) == IF a >= b THEN a ELSE b

\* the grid whose live cells are the coordinates of list
GridOf(list) ==
    [i \in 0 .. (width * height - 1) |->
        \E k \in 1 .. Len(list) : Index(list[k]) = i]

----------------------------------------------------------------------------
(* C1 .. C10 *)

\* C1: one tick replaces the grid by its B3/S23 successor, every cell computed
\* from the pre-tick grid with the neighbours outside the grid not counted.
C1_TickIsSuccessor ==
    [][op' = "tick" => cells' = Successor(cells)]_vars

\* a tick of a grid at least 3 x 3 in which a cell survived, one was born
\* and one died
C1_Witness ==
    /\ op = "tick"
    /\ width >= 3 /\ height >= 3
    /\ \E p \in Coords : PreTick[Index(p)] /\ cells[Index(p)]
    /\ \E p \in Coords : ~PreTick[Index(p)] /\ cells[Index(p)]
    /\ \E p \in Coords :
          /\ PreTick[Index(p)] /\ ~cells[Index(p)]
          /\ Cardinality(LiveAround(PreTick, p)) > 3

\* C2: tick immediately followed by tick_back succeeds and leaves the grid
\* equal to the pre-tick grid, whatever the grid and the history fill level.
C2_TickThenTickBack ==
    [][op = "tick" /\ op' = "tick_back" =>
          /\ ret' = "Ok"
          /\ ~panicked'
          /\ cells' = PreTick]_vars

\* a tick of a history of HISTORY_LEN - 1 snapshots and then a tick_back (the
\* only one of its run, so the call before it was the tick), restoring a grid
\* with live cells that is not the oldest snapshot
C2_Witness ==
    /\ op = "tick_back" /\ ret = "Ok" /\ nback = 1
    /\ Len(history) = HISTORY_LEN - 1
    /\ Len(log) = Len(history)
    /\ Alive(cells) # {}
    /\ history[1] # cells

\* C3: with an empty history tick_back returns the no-history error, does not
\* crash, and leaves the grid (and the empty history) as they were.
C3_TickBackOnEmpty ==
    [][op' = "tick_back" /\ history = <<>> =>
          /\ ret' = "Err"
          /\ ~panicked'
          /\ cells' = cells
          /\ history' = <<>>]_vars

\* the error returned once as many tick_back calls had succeeded as ticks
\* had been made, on a grid with live cells
C3_Witness ==
    /\ op = "tick_back" /\ ret = "Err"
    /\ nback >= 1
    /\ history = <<>>
    /\ log = <<>>
    /\ Alive(cells) # {}

\* C4: the history never holds more than HISTORY_LEN snapshots, and no run of
\* tick_back calls has more than HISTORY_LEN successes.
C4_HistoryBounded ==
    /\ Len(history) <= HISTORY_LEN
    /\ nback <= HISTORY_LEN

\* HISTORY_LEN + MaxExtra ticks, HISTORY_LEN successful tick_back calls in a
\* row, and then the no-history result
C4_Witness ==
    /\ op = "tick_back" /\ ret = "Err"
    /\ nback = HISTORY_LEN
    /\ Len(log) = MaxExtra

\* C5 (as claimed): the cursor is inside the grid in every reachable state.
C5_CursorAlwaysInBounds == CursorInBounds

\* C6 (as claimed): from an in-bounds cursor move_cursor(dr, dc) lands on
\* ((row + dr) mod height, (col + dc) mod width), the modulo non-negative.
C6_MoveIsModulo ==
    [][op' = "move_cursor" /\ CursorInBounds =>
          selected_cell' = <<(selected_cell[1] + arg'[1]) % height,
                             (selected_cell[2] + arg'[2]) % width>>]_vars

\* C7 (as claimed): from an in-bounds cursor two move_cursor calls in a row
\* land where the single call with the summed deltas lands.
C7_MovesCompose ==
    [][(/\ op = "move_cursor" /\ op' = "move_cursor"
        /\ prev_cursor[1] \in 0 .. height - 1
        /\ prev_cursor[2] \in 0 .. width - 1) =>
          selected_cell' = <<move_row(prev_cursor[1], arg[1] + arg'[1]),
                             move_col(prev_cursor[2], arg[2] + arg'[2])>>]_vars

\* C8: a tick at capacity drops exactly the oldest snapshot and appends the
\* pre-tick grid; the history is always the newest part of the sequence of
\* pre-tick grids, oldest first; and each successful tick_back returns the
\* newest of them.
C8_EvictOldestUndoNewest ==
    [][/\ op' = "tick" =>
             history' = Append(IF Len(history) = HISTORY_LEN
                               THEN Tail(history) ELSE history, cells)
       /\ op' = "tick_back" /\ ret' = "Ok" =>
             /\ cells' = PreTick
             /\ history' = SubSeq(history, 1, Len(history) - 1)
       /\ Len(history') <= Len(log')
       /\ history' = SubSeq(log', Len(log') - Len(history') + 1, Len(log'))]_vars

\* HISTORY_LEN + MaxExtra ticks and then HISTORY_LEN tick_back calls: the
\* history is empty, MaxExtra snapshots were evicted, and the grid is not the
\* one the run started from
C8_Witness ==
    /\ op = "tick_back" /\ ret = "Ok"
    /\ nback = HISTORY_LEN
    /\ history = <<>>
    /\ Len(log) = MaxExtra
    /\ cells # log[1]

\* C9: clear makes every cell dead and leaves the cursor, show_cursor,
\* is_running and the history as they were.
C9_ClearFrame ==
    [][op' = "clear" =>
          /\ cells' = [i \in 0 .. (width * height - 1) |-> FALSE]
          /\ UNCHANGED <<width, height, selected_cell, show_cursor, is_running,
                         history>>]_vars

\* a clear with the cursor moved, both flags set and a snapshot with live
\* cells in the history
C9_Witness ==
    /\ op = "clear"
    /\ selected_cell # <<0, 0>>
    /\ show_cursor /\ is_running
    /\ history # <<>>
    /\ Alive(history[1]) # {}
    /\ Alive(cells) = {}

\* C10 (as claimed): toggle_selected_cell does not crash, negates the cell at
\* the cursor and no other, and leaves the cursor, the flags and the history
\* as they were.
C10_ToggleFrame ==
    [][op' = "toggle_selected_cell" =>
          /\ ~panicked'
          /\ \A p \in Coords :
                cells'[Index(p)] = IF p = selected_cell THEN ~cells[Index(p)]
                                   ELSE cells[Index(p)]
          /\ UNCHANGED <<width, height, selected_cell, show_cursor, is_running,
                         history>>]_vars

----------------------------------------------------------------------------
(* C11 .. C20 *)

\* C11: set_cells makes every listed cell alive and leaves every other cell
\* at its previous value: the new grid is the old grid OR the listed set.
C11_SetCellsIsOr ==
    [][op' = "set_cells" /\ arg' # <<>> =>
          /\ \A p \in Coords :
                cells'[Index(p)] =
                    (cells[Index(p)] \/ \E k \in 1 .. Len(arg'[1]) : arg'[1][k] = p)
          /\ DOMAIN cells' = DOMAIN cells]_vars

\* a set_cells of a non-empty list after which a cell outside the list is
\* alive and a cell outside the list is dead
C11_Witness ==
    /\ op = "set_cells"
    /\ arg # <<>>
    /\ Len(arg[1]) >= 1
    /\ \E p \in Coords : cells[Index(p)] /\ \A k \in 1 .. Len(arg[1]) : arg[1][k] # p
    /\ \E p \in Coords : ~cells[Index(p)]

\* C12: a horizontal line of three live cells with a dead row and column
\* between it and every edge becomes the vertical line through the same
\* centre after one tick, and that vertical line becomes the horizontal line
\* again after the next.
C12_Blinker ==
    [][op' = "tick" =>
          \A p \in LineCentres :
              /\ cells = GridOf(HLine(p)) => cells' = GridOf(VLine(p))
              /\ cells = GridOf(VLine(p)) => cells' = GridOf(HLine(p))]_vars

\* two ticks of a horizontal line: vertical after the first, the original
\* grid after the second
C12_Witness ==
    /\ op = "tick"
    /\ Len(log) = 2
    /\ \E p \in LineCentres :
          /\ log[1] = GridOf(HLine(p))
          /\ log[2] = GridOf(VLine(p))
          /\ cells = log[1]
          /\ log[2] # log[1]

\* C13: a 2 x 2 block of live cells that touches no edge, on an otherwise
\* dead grid of at least 4 x 4, is left unchanged by every tick.
C13_BlockIsStill ==
    [][op' = "tick" =>
          \A p \in BlockCorners :
              cells = GridOf(Block(p)) => cells' = cells]_vars

\* MaxTicks ticks of a block, the grid still the block
C13_Witness ==
    /\ op = "tick"
    /\ Len(log) = MaxTicks
    /\ width >= 4 /\ height >= 4
    /\ \E p \in BlockCorners :
          /\ log[1] = GridOf(Block(p))
          /\ cells = GridOf(Block(p))

\* C14: render changes no field of the Universe, and the frame it writes is
\* a function of the current state alone: the frame of that state.
C14_RenderIsPure ==
    [][op' = "render" =>
          /\ UNCHANGED Fields
          /\ UNCHANGED panicked
          /\ frame' = FrameOf]_vars

\* a frame written while running, with an undo snapshot stored, that shows
\* the cursor on a live cell
C14_Witness ==
    /\ op = "render"
    /\ is_running
    /\ history # <<>>
    /\ show_cursor
    /\ CursorInBounds
    /\ cells[Index(selected_cell)]
    /\ \E k \in 1 .. Len(frame) : frame[k] = SELECTED_ALIVE
    /\ \E k \in 1 .. Len(frame) : frame[k] = DEAD

\* C15: the history is changed only by tick, which appends the pre-tick
\* grid, and by tick_back, which removes the newest snapshot; every other
\* operation and every write to is_running or show_cursor leaves it as it
\* is.
C15_HistoryWriters ==
    [][/\ op' = "tick" => history' = Pushed(history, cells)
       /\ op' = "tick_back" =>
             history' = IF history = <<>> THEN history ELSE Popped(history)
       /\ op' \in {"set_cell", "set_cells", "clear", "move_cursor",
                   "toggle_selected_cell", "render", "set_is_running",
                   "set_show_cursor"} => history' = history
       /\ history' # history => op' \in {"tick", "tick_back"}]_vars

\* a toggle of a cell with a snapshot in the history, the snapshot kept
C15_Witness ==
    /\ op = "toggle_selected_cell"
    /\ ~panicked
    /\ Len(log) = 1
    /\ history = log
    /\ cells # history[1]

\* C16 as stated: after a successful tick_back the grid that was current
\* before the undo is stored nowhere, neither as the current grid nor in the
\* history, so that no run of tick_back calls can yield it again.
C16_UndoneGridStoredNowhere ==
    [][op' = "tick_back" /\ ret' = "Ok" =>
          /\ cells' # cells
          /\ \A i \in 1 .. Len(history') : history'[i] # cells]_vars

\* C16, amended: undo is a single linear chain with no redo. A successful
\* tick_back makes the newest snapshot current and leaves the older ones as
\* the history, so everything stored afterwards was a snapshot before; a
\* tick after an undo appends only the restored grid; a further tick_back
\* yields a snapshot of the shortened history.
C16_LinearUndo ==
    [][/\ op' = "tick_back" /\ ret' = "Ok" =>
             /\ history # <<>>
             /\ cells' = history[Len(history)]
             /\ history' = Popped(history)
       /\ op = "tick_back" /\ ret = "Ok" /\ op' = "tick" =>
             history' = Pushed(history, cells)
       /\ op = "tick_back" /\ ret = "Ok" /\ op' = "tick_back" /\ ret' = "Ok" =>
             \E i \in 1 .. Len(history) : cells' = history[i]]_vars

\* an undo after which the undone grid, the successor of the restored one,
\* is neither the current grid nor a snapshot
C16_Witness ==
    /\ op = "tick_back"
    /\ ret = "Ok"
    /\ Alive(cells) # {}
    /\ Successor(cells) # cells
    /\ \A i \in 1 .. Len(history) : history[i] # Successor(cells)

\* C17: an iteration of the loop of main applies at most one mutation to
\* the Universe for the event it read; then, if and only if is_running holds
\* at that point, it performs exactly one tick before the loop repeats, and
\* changes nothing otherwise; the quit key ends the loop without a mutation
\* and nothing runs after it (nor after the panic on an unreadable event,
\* which mutates nothing either).
C17_LoopIteration ==
    [][/\ pc = "poll" =>
             /\ AtMostOneMutation
             /\ pc' = CASE key' = "q" -> "done"
                         [] key' = "error" -> "aborted"
                         [] OTHER -> "auto"
             /\ key' \in {"q", "error"} => UNCHANGED Fields
       /\ pc = "auto" =>
             /\ IF is_running THEN OneTick ELSE UNCHANGED Fields
             /\ pc' = "poll"
       /\ pc \in {"done", "aborted"} => FALSE]_vars

\* an iteration that read the space key while running: the toggle of the
\* handler, then the automatic tick, which stored the toggled grid
C17_Witness ==
    /\ pc = "poll"
    /\ key = " "
    /\ is_running
    /\ Len(history) = Len(iter.history) + 1
    /\ history[Len(history)] # iter.cells
    /\ Alive(history[Len(history)]) # {}
    /\ cells = Successor(history[Len(history)])

\* C18: from 200 ms, after any sequence of '+' and '-' the interval is at
\* least 50 ms, so the subtraction of '+' never goes below zero; '+' sets it
\* to max(interval - 50, 50), '-' adds 50, and neither changes a field of
\* the Universe.
C18_IntervalFloor ==
    /\ [](tick_millis >= MIN_TICK_MILLIS /\ ~panicked)
    /\ [][pc = "poll" /\ key' \in {"+", "-"} =>
             /\ tick_millis >= TICK_MILLIS_STEP
             /\ tick_millis' = IF key' = "+"
                               THEN Max(tick_millis - TICK_MILLIS_STEP, MIN_TICK_MILLIS)
                               ELSE tick_millis + TICK_MILLIS_STEP
             /\ UNCHANGED Fields]_vars

\* a '+' read with the interval already at 50 ms, the interval still 50 ms
C18_Witness ==
    /\ key = "+"
    /\ iter.tick_millis = MIN_TICK_MILLIS
    /\ tick_millis = MIN_TICK_MILLIS
    /\ ~panicked

\* C19: in main the cursor stays inside the 6 x 6 grid, so the toggle of
\* the space key always indexes a cell of the grid, and it flips the cell
\* under the cursor and no other.
C19_DriverCursor ==
    /\ [](width = DRIVER_WIDTH /\ height = DRIVER_HEIGHT /\ CursorInBounds /\ ~panicked)
    /\ [][pc = "poll" /\ key' = " " =>
             /\ Index(selected_cell) \in DOMAIN cells
             /\ cells' = [cells EXCEPT ![Index(selected_cell)] = ~cells[Index(selected_cell)]]
             /\ UNCHANGED selected_cell]_vars

\* a toggle in the last row and last column, reached by wrapping from (0, 0)
C19_Witness ==
    /\ key = " "
    /\ selected_cell = <<DRIVER_HEIGHT - 1, DRIVER_WIDTH - 1>>
    /\ cells[Index(selected_cell)]
    /\ ~iter.cells[Index(selected_cell)]

\* C20: while is_running, an iteration that reads 'p' with a non-empty
\* history whose newest snapshot is the predecessor of the grid (no edit
\* since the last tick) ends with the grid and the history it began with:
\* the automatic tick redoes the undo.
C20_UndoRedoneWhileRunning ==
    [][/\ pc = "auto"
       /\ key = "p"
       /\ is_running
       /\ iter.history # <<>>
       /\ iter.cells = Successor(iter.history[Len(iter.history)])
       => /\ cells' = iter.cells
          /\ history' = iter.history]_vars

\* the end of such an iteration, the undone grid different from the restored
\* one
C20_Witness ==
    /\ pc = "poll"
    /\ key = "p"
    /\ is_running
    /\ iter.history # <<>>
    /\ op = "tick"
    /\ cells = iter.cells
    /\ history = iter.history
    /\ history[Len(history)] # cells

====
